---- MODULE Spec2Model ----
(***************************************************************************)
(* The session-scheduling and state-tracking engine of the autonomous      *)
(* agent template: the feature Store (db.ts), the features-db tool surface *)
(* (mcp-server.ts) and the orchestrator's outer loop (agent.ts).           *)
(***************************************************************************)
EXTENDS Integers, Sequences, FiniteSets, TLC

\* ------------------------------------------------------------------ bounds
\* Largest feature id of a feature set of the orchestrator model.
MaxFeatures == 2
\* Sessions a run over a single feature may open, and sessions a run over
\* two features may open.
MaxSessions == 4
MaxSessionsWide == 1
\* Store writes of the orchestrator that may fail in one run.
MaxStoreFaults == 1
\* Largest retry_count the model lets a retry produce.
MaxRetryCount == 4
\* Largest claimed count the stream of one session is followed to.
MaxClaimed == 2
\* Largest feature id of the feature set the tool surface is called on, notes
\* the tools may add, and seconds the Store's clock is followed for.
MaxToolFeatures == 1
MaxNotes == 2
MaxNow == 1
\* Notes of earlier sessions the context is built over, notes added to them,
\* and seconds that pass meanwhile.
ContextBaseNotes == 9
MaxExtraNotes == 2
MaxExtraNow == 1
\* Notes added through the Store API.
MaxStoreNotes == 1
\* Largest maxRetries handed to markFeatureForRetry, and calls of it beyond
\* maxRetries that are followed.
MaxMaxRetries == 4
MaxExtraRetries == 1
\* Largest feature id and largest limit of the batcher's input space.
MaxId == 4
MaxLimit == 4

\* ------------------------------------------------------- program constants
MAX_RETRIES == 3
maxConsecutiveFailures == 3
BATCH_SIZE == 3
\* getRelevantNotes: notes.slice(0, 10).
NOTES_IN_CONTEXT == 10

\* Category slugs, with their rank under SQLite's ORDER BY category ASC.
Categories == {"a", "b"}
CategoryRank == [a |-> 1, b |-> 2]

FeatureStatus == {"pending", "in_progress", "completed", "failed"}

\* notes.feature_id is NULL (no feature has this id).
NullId == 0

\* maxIterations = Infinity: larger than any iteration count the bounded
\* sessions relation lets a process reach.
Infinity == MaxSessions + 1

\* let sessionStats: SessionStats | null = null
NullStats == [isNull |-> TRUE, featuresCompleted |-> 0]

VARIABLES
    features,             \* features relation: id -> [category, status, retry_count]
    notes,                \* notes relation, in insertion order
    sessions,             \* sessions relation, index = session id
    pc,                   \* position of the orchestrator process
    iteration,            \* agent.ts: let iteration
    consecutiveFailures,  \* agent.ts: let consecutiveFailures
    force,                \* --force
    maxIterations,        \* --max=<n>
    batchFeatures,        \* agent.ts: const batchFeatures (result of getNextFeatures)
    preSessionCompleted,  \* agent.ts: const preSessionCompleted
    sessionId,            \* agent.ts: const sessionId
    limit,                \* the limit argument handed to getNextFeatures
    storeFaults,          \* Store writes of the orchestrator that have failed
    completedCount,       \* runAgentSession: let completedCount (the claimed count)
    statusCalls,          \* history: ids this session's agent has called feature_status
                          \* (completed | pending) on
    sessionStats,         \* agent.ts: let sessionStats: SessionStats | null
    resultEvent,          \* the agent's stream has emitted a result event
    toolCalled,           \* history: the agent of the last opened session made a tool call
    recoveryRuns,         \* history: times this process has run Recovery
    toolResult,           \* features-db server: the result of the last tool call
    now,                  \* the Store's clock: CURRENT_TIMESTAMP, in seconds
    rows,                 \* getNotesForFeature: const rows
    retryArgs,            \* markFeatureForRetry: featureId, maxRetries
    sessionContext,       \* getRelevantNotes: the notes put into the session context
    orphaned,             \* the count resetOrphanedFeatures has returned
    retryCountRead,       \* markFeatureForRetry: const retryCount (as read)
    observed,             \* the feature row another connection has read
    retryCalls,           \* history: calls of markFeatureForRetry that have returned
    failedIterations      \* history: failure-path iterations since the last one
                          \* closed by the reconcile path (or since process start)

vars == <<features, notes, sessions, pc, iteration, consecutiveFailures, force,
          maxIterations, batchFeatures, preSessionCompleted, sessionId, limit,
          storeFaults, completedCount, statusCalls, sessionStats, resultEvent, toolCalled,
          recoveryRuns, toolResult, now, rows, retryArgs, sessionContext, orphaned, retryCountRead, observed,
          retryCalls, failedIterations>>

\* The state of the Store's other clients, which the orchestrator's process
\* does not touch.
clientVars == <<now, rows, retryArgs, sessionContext, orphaned, retryCountRead, observed, retryCalls>>

\* No row read, no call made.
NoRow == [id |-> 0, status |-> "none", retry_count |-> 0]
NoArgs == [featureId |-> 0, maxRetries |-> 0]

ClientsIdle ==
    /\ now = 0
    /\ rows = <<>>
    /\ retryArgs = NoArgs
    /\ sessionContext = <<>>
    /\ orphaned = 0
    /\ retryCountRead = 0
    /\ observed = NoRow
    /\ retryCalls = 0

\* ------------------------------------------------------------------ helpers
Min(a, b) == IF a <= b THEN a ELSE b

MinOf(S) == CHOOSE m \in S : \A x \in S : m <= x

RECURSIVE SortAsc(_)
\* ORDER BY id ASC over a set of ids.
SortAsc(S) == IF S = {} THEN <<>> ELSE <<MinOf(S)>> \o SortAsc(S \ {MinOf(S)})

\* LIMIT n + 1 (off by one).
TakeOneMore(seq, n) == SubSeq(seq, 1, Min(n + 1, Len(seq)))

\* LIMIT n over an ordered result.
Take(seq, n) == SubSeq(seq, 1, Min(n, Len(seq)))

Ids(feats) == DOMAIN feats

IdsWithStatus(feats, s) == {i \in Ids(feats) : feats[i].status = s}

\* Every feature table over a set of ids, with the given statuses, as ingested
\* (retry_count DEFAULT 0).
FeatureTables(idSets, statuses) ==
    UNION {[D -> [category : Categories, status : statuses, retry_count : {0}]] :
           D \in idSets}

\* ----------------------------------------------------------- Store (db.ts)
\* WHERE status IN ('pending', 'in_progress') in place of status = 'pending'.
IncompleteIds(feats) ==
    IdsWithStatus(feats, "pending") \cup IdsWithStatus(feats, "in_progress")

\* WHERE status = 'pending'
PendingIds(feats) == IdsWithStatus(feats, "pending")

\* SELECT category ... WHERE status = 'pending' GROUP BY category
\* ORDER BY category ASC LIMIT 1 (only called when a pending feature exists).
TargetCategory(feats) ==
    LET cats == {feats[i].category : i \in PendingIds(feats)}
    IN  CHOOSE c \in cats : \A d \in cats : CategoryRank[c] <= CategoryRank[d]

\* A row of the features relation as getNextFeatures returns it.
FeatureRow(feats, i) ==
    [id |-> i, category |-> feats[i].category, status |-> feats[i].status,
     retry_count |-> feats[i].retry_count]

\* WHERE category = ? AND status = 'pending' ORDER BY id ASC LIMIT ?
CategoryRows(feats, category, lim) ==
    LET ids == {i \in PendingIds(feats) : feats[i].category = category}
        ordered == Take(SortAsc(ids), lim)
    IN  [k \in 1..Len(ordered) |-> FeatureRow(feats, ordered[k])]

getNextFeatures(feats, lim) ==
    IF PendingIds(feats) = {}
    THEN <<>>
    ELSE CategoryRows(feats, TargetCategory(feats), lim)

hasIncompleteFeatures(feats) ==
    \E i \in Ids(feats) : feats[i].status \in {"pending", "in_progress"}

\* (set_status starts the feature afresh: retry_count = 0.)
setFeatureStatusClearsRetries(feats, featureId, status) ==
    IF featureId \in Ids(feats)
    THEN [feats EXCEPT ![featureId].status = status, ![featureId].retry_count = 0]
    ELSE feats

\* UPDATE features SET status = ? WHERE id = ?  (no row: nothing changes)
setFeatureStatus(feats, featureId, status) ==
    IF featureId \in Ids(feats)
    THEN [feats EXCEPT ![featureId].status = status]
    ELSE feats

\* retryCount >= maxRetries - 1 (fails one retry early).
RetryStatusEarly(retryCount, maxRetries) ==
    IF retryCount >= maxRetries - 1 THEN "failed" ELSE "pending"

\* retryCount > maxRetries (fails one retry late).
RetryStatusLate(retryCount, maxRetries) ==
    IF retryCount > maxRetries THEN "failed" ELSE "pending"

\* retryCount >= maxRetries ? "failed" : "pending"
RetryStatus(retryCount, maxRetries) ==
    IF retryCount >= maxRetries THEN "failed" ELSE "pending"

\* UPDATE retry_count = retry_count + 1; SELECT retry_count; UPDATE status.
\* For an unknown id the first UPDATE changes no row and the read of
\* row.retry_count throws before the status write.
markFeatureForRetry(feats, featureId, maxRetries) ==
    IF featureId \in Ids(feats)
    THEN LET retryCount == feats[featureId].retry_count + 1
         IN  [feats EXCEPT ![featureId].retry_count = retryCount,
                           ![featureId].status = RetryStatus(retryCount, maxRetries)]
    ELSE feats

\* (Every feature that is not completed is reset.)
resetUnfinishedFeatures(feats) ==
    [i \in Ids(feats) |->
        IF feats[i].status # "completed"
        THEN [feats[i] EXCEPT !.status = "pending"]
        ELSE feats[i]]

\* UPDATE features SET status = 'pending' WHERE status = 'in_progress'
resetOrphanedFeatures(feats) ==
    [i \in Ids(feats) |->
        IF feats[i].status = "in_progress"
        THEN [feats[i] EXCEPT !.status = "pending"]
        ELSE feats[i]]

\* result.changes of that UPDATE: the rows its WHERE clause matched.
resetOrphanedFeaturesChanges(feats) == Cardinality(IdsWithStatus(feats, "in_progress"))

\* SUM(CASE WHEN status = ... THEN 1 ELSE 0 END) per status.
getKanbanStats(feats) ==
    [s \in FeatureStatus |-> Cardinality(IdsWithStatus(feats, s))]

\* SELECT COUNT(*) as total FROM features
getProgressStatsTotal(feats) == Cardinality(Ids(feats))

\* INSERT INTO sessions (status) VALUES ('running'); the new row's id is its index.
startSession(sess) ==
    Append(sess, [status |-> "running", features_attempted |-> 0,
                  features_completed |-> 0, error_message |-> "NULL"])

\* UPDATE sessions SET status, features_attempted ?? 0, features_completed ?? 0,
\* error_message ?? null WHERE id = ?
endSession(sess, id, stats) ==
    [sess EXCEPT ![id] = [status |-> stats.status,
                          features_attempted |-> stats.features_attempted,
                          features_completed |-> stats.features_completed,
                          error_message |-> stats.error_message]]

\* INSERT INTO notes (feature_id, category, content, created_by_session);
\* created_at defaults to CURRENT_TIMESTAMP, the row's id is its index.
addNote(ns, note, timestamp) ==
    Append(ns, [feature_id |-> note.feature_id, category |-> note.category,
                content |-> note.content,
                created_by_session |-> note.created_by_session,
                created_at |-> timestamp])

RECURSIVE ContiguityWalk(_, _, _, _)
\* (The walk that closes no category: a category may be opened again.)
ContiguityWalkForgetful(feats, order, current, closed) ==
    IF order = <<>>
    THEN TRUE
    ELSE LET c == feats[Head(order)].category
         IN  IF c = current
             THEN ContiguityWalk(feats, Tail(order), current, closed)
             ELSE IF c \in closed
                  THEN FALSE
                  ELSE ContiguityWalk(feats, Tail(order), c, closed)

\* The Validator's walk over the features in id order: `current` is the open
\* category, `closed` the categories already left; a closed category that
\* reappears is a violation.
ContiguityWalk(feats, order, current, closed) ==
    IF order = <<>>
    THEN TRUE
    ELSE LET c == feats[Head(order)].category
         IN  IF c = current
             THEN ContiguityWalk(feats, Tail(order), current, closed)
             ELSE IF c \in closed
                  THEN FALSE
                  ELSE ContiguityWalk(feats, Tail(order), c, closed \cup {current})

\* TRUE when validateCategoryContiguity returns, FALSE when it throws.
validateCategoryContiguity(feats) ==
    ContiguityWalk(feats, SortAsc(Ids(feats)), "", {})

\* Sets status = pending for every in_progress feature whose updated_at is
\* older than the threshold (`stale`: the ids whose updated_at is that old).
resetStaleFeatures(feats, stale) ==
    [i \in Ids(feats) |->
        IF feats[i].status = "in_progress" /\ i \in stale
        THEN [feats[i] EXCEPT !.status = "pending"]
        ELSE feats[i]]

\* --------------------------------------------- the batcher's input space
\* getNextFeatures applied to every feature table over ids 1..MaxId (any subset
\* of ids, any category, any status) and every limit in 1..MaxLimit.
InitBatch ==
    /\ features \in FeatureTables(SUBSET (1..MaxId), FeatureStatus)
    /\ limit \in 1..MaxLimit
    /\ batchFeatures = <<>>
    /\ pc = "batch_call"
    /\ notes = <<>>
    /\ sessions = <<>>
    /\ iteration = 0
    /\ consecutiveFailures = 0
    /\ force = FALSE
    /\ maxIterations = Infinity
    /\ preSessionCompleted = 0
    /\ sessionId = 0
    /\ failedIterations = 0
    /\ storeFaults = 0
    /\ completedCount = 0
    /\ statusCalls = {}
    /\ sessionStats = NullStats
    /\ resultEvent = FALSE
    /\ toolCalled = FALSE
    /\ recoveryRuns = 0
    /\ toolResult = "none"
    /\ ClientsIdle

NextBatchCall ==
    /\ pc = "batch_call"
    /\ batchFeatures' = getNextFeatures(features, limit)
    /\ pc' = "batch_return"
    /\ UNCHANGED <<features, notes, sessions, iteration, consecutiveFailures, force,
                   maxIterations, preSessionCompleted, sessionId, limit,
                   storeFaults, failedIterations, completedCount, statusCalls, sessionStats,
                   resultEvent, toolCalled, recoveryRuns, toolResult, clientVars>>

NextBatch == NextBatchCall

SpecBatch == InitBatch /\ [][NextBatch]_vars

\* ------------------------------- markFeatureForRetry, statement by statement
\* No orchestrator process, no session, no tool call.
NoProcess ==
    /\ notes = <<>>
    /\ sessions = <<>>
    /\ iteration = 0
    /\ consecutiveFailures = 0
    /\ force = FALSE
    /\ maxIterations = Infinity
    /\ batchFeatures = <<>>
    /\ preSessionCompleted = 0
    /\ sessionId = 0
    /\ limit = BATCH_SIZE
    /\ storeFaults = 0
    /\ completedCount = 0
    /\ statusCalls = {}
    /\ sessionStats = NullStats
    /\ resultEvent = FALSE
    /\ toolCalled = FALSE
    /\ recoveryRuns = 0
    /\ toolResult = "none"
    /\ failedIterations = 0

processVars == <<notes, sessions, iteration, consecutiveFailures, force, maxIterations,
                 batchFeatures, preSessionCompleted, sessionId, limit, storeFaults,
                 completedCount, statusCalls, sessionStats, resultEvent, toolCalled, recoveryRuns,
                 toolResult, failedIterations>>

\* A feature set with every retry_count 0, and a caller of markFeatureForRetry
\* with its arguments (the id may be one no feature has).
InitRetry ==
    /\ features \in FeatureTables({1..n : n \in 1..MaxFeatures}, FeatureStatus)
    /\ retryArgs \in [featureId : 1..MaxFeatures, maxRetries : 1..MaxMaxRetries]
    /\ pc = "retry_idle"
    /\ retryCountRead = 0
    /\ observed = NoRow
    /\ retryCalls = 0
    /\ now = 0
    /\ rows = <<>>
    /\ sessionContext = <<>>
    /\ orphaned = 0
    /\ NoProcess

\* UPDATE features SET retry_count = retry_count + 1 WHERE id = ?
RetryIncrement ==
    /\ pc = "retry_idle"
    /\ retryCalls < retryArgs.maxRetries + MaxExtraRetries
    /\ features' = IF retryArgs.featureId \in Ids(features)
                   THEN [features EXCEPT ![retryArgs.featureId].retry_count = @ + 1]
                   ELSE features
    /\ pc' = "retry_incremented"
    /\ UNCHANGED <<retryArgs, sessionContext, orphaned, retryCountRead, observed, retryCalls, now, rows, processVars>>

\* SELECT retry_count FROM features WHERE id = ?; row.retry_count throws when
\* there is no row, and the call ends.
RetrySelect ==
    /\ pc = "retry_incremented"
    /\ IF retryArgs.featureId \in Ids(features)
       THEN /\ retryCountRead' = features[retryArgs.featureId].retry_count
            /\ pc' = "retry_read"
       ELSE /\ retryCountRead' = 0
            /\ pc' = "retry_threw"
    /\ UNCHANGED <<features, retryArgs, sessionContext, orphaned, observed, retryCalls, now, rows, processVars>>

\* UPDATE features SET status = ? WHERE id = ?; the call returns.
RetryWriteStatus ==
    /\ pc = "retry_read"
    /\ features' = [features EXCEPT ![retryArgs.featureId].status =
                       RetryStatus(retryCountRead, retryArgs.maxRetries)]
    /\ retryCalls' = retryCalls + 1
    /\ retryCountRead' = 0
    /\ pc' = "retry_idle"
    /\ UNCHANGED <<retryArgs, sessionContext, orphaned, observed, now, rows, processVars>>

\* Another connection to the Store file (the CLI's list command, reading
\* through getFeaturesByStatus) reads the row of the feature.
ObserveFeature ==
    /\ pc \in {"retry_idle", "retry_incremented", "retry_read"}
    /\ retryArgs.featureId \in Ids(features)
    /\ observed' = [id |-> retryArgs.featureId,
                    status |-> features[retryArgs.featureId].status,
                    retry_count |-> features[retryArgs.featureId].retry_count]
    /\ UNCHANGED <<features, pc, retryArgs, sessionContext, orphaned, retryCountRead, retryCalls, now, rows,
                   processVars>>

NextRetry ==
    \/ RetryIncrement
    \/ RetrySelect
    \/ RetryWriteStatus
    \/ ObserveFeature

SpecRetry == InitRetry /\ [][NextRetry]_vars

\* ------------------------------------------- orchestrator process (agent.ts)
MaxIterationsChoices == {0, 2, Infinity}

\* Values of pc at which the orchestrator process has ended.
Ended == {"done", "breaker", "exit1", "interrupted"}

\* Sessions a run may open: MaxSessions over a single feature, MaxSessionsWide
\* over two features, one over more.
SessionsAllowed ==
    IF Cardinality(Ids(features)) <= 1 THEN MaxSessions
    ELSE IF Cardinality(Ids(features)) = 2 THEN MaxSessionsWide ELSE 1

\* The locals of runAutonomousAgent as the process leaves them behind: once
\* the process has ended they are gone.
LocalsGone ==
    /\ iteration' = 0
    /\ consecutiveFailures' = 0
    /\ batchFeatures' = <<>>
    /\ preSessionCompleted' = 0
    /\ sessionId' = 0
    /\ failedIterations' = 0
    /\ completedCount' = 0
    /\ statusCalls' = {}
    /\ sessionStats' = NullStats
    /\ resultEvent' = FALSE
    /\ toolCalled' = FALSE
    /\ toolResult' = "none"

\* The locals of the loop, the stream's state left aside.
LoopLocalsUnchanged ==
    UNCHANGED <<iteration, consecutiveFailures, batchFeatures, preSessionCompleted,
                sessionId, failedIterations>>

LocalsUnchanged ==
    /\ LoopLocalsUnchanged
    /\ UNCHANGED <<completedCount, statusCalls, sessionStats, resultEvent, toolCalled, toolResult>>

\* Feature sets the Validator rejects, over one id more than MaxFeatures (the
\* run on them ends at the Validator).
RejectedTables ==
    {t \in FeatureTables({1..(MaxFeatures + 1)}, {"pending", "in_progress"}) :
        ~validateCategoryContiguity(t)}

\* The sessions relation an earlier run left: empty, or the row of the session
\* that was in flight when that run was interrupted.
PriorSessions == {<<>>, startSession(<<>>)}

\* The Store as ingest, or an interrupted earlier run, left it (every feature
\* pending or in_progress, retry_count 0; the notes of an earlier run are left
\* out), and an orchestrator process started on it with its flags.
Init ==
    /\ features \in FeatureTables({1..n : n \in 0..MaxFeatures},
                                  {"pending", "in_progress"}) \cup RejectedTables
    /\ notes = <<>>
    /\ sessions \in PriorSessions
    /\ limit = BATCH_SIZE
    /\ storeFaults = 0
    /\ pc = "start"
    /\ force \in BOOLEAN
    /\ maxIterations \in MaxIterationsChoices
    /\ iteration = 0
    /\ consecutiveFailures = 0
    /\ batchFeatures = <<>>
    /\ preSessionCompleted = 0
    /\ sessionId = 0
    /\ failedIterations = 0
    /\ completedCount = 0
    /\ statusCalls = {}
    /\ sessionStats = NullStats
    /\ resultEvent = FALSE
    /\ toolCalled = FALSE
    /\ recoveryRuns = 0
    /\ toolResult = "none"
    /\ ClientsIdle

\* (The Validator's throw is logged and the startup goes on.)
ValidateThenGoesOn ==
    /\ pc = "start"
    /\ pc' = "recovery"
    /\ LocalsUnchanged
    /\ UNCHANGED <<features, notes, sessions, force, maxIterations, limit, clientVars, storeFaults,
                   recoveryRuns>>

\* validateCategoryContiguity inside try/catch: a throw exits with code 1.
Validate ==
    /\ pc = "start"
    /\ pc' = IF validateCategoryContiguity(features) THEN "recovery" ELSE "exit1"
    /\ LocalsUnchanged
    /\ UNCHANGED <<features, notes, sessions, force, maxIterations, limit, clientVars, storeFaults,
                   recoveryRuns>>

\* (Recovery left out: the process goes on to the feature check without it.)
RecoverySkipped ==
    /\ pc = "recovery"
    /\ pc' = "check_features"
    /\ LocalsUnchanged
    /\ UNCHANGED <<features, notes, sessions, force, maxIterations, limit, clientVars, storeFaults,
                   recoveryRuns>>

\* resetOrphanedFeatures, then resetStaleFeatures(2 hours).
Recovery ==
    /\ pc = "recovery"
    /\ \E stale \in SUBSET Ids(features) :
          features' = resetStaleFeatures(resetOrphanedFeatures(features), stale)
    /\ recoveryRuns' = recoveryRuns + 1
    /\ pc' = "check_features"
    /\ LocalsUnchanged
    /\ UNCHANGED <<notes, sessions, force, maxIterations, limit, clientVars, storeFaults>>

\* stats.total === 0: "Database exists but contains no features", exit(1).
CheckFeatures ==
    /\ pc = "check_features"
    /\ pc' = IF getProgressStatsTotal(features) = 0 THEN "exit1" ELSE "loop_head"
    /\ LocalsUnchanged
    /\ UNCHANGED <<features, notes, sessions, force, maxIterations, limit, clientVars, storeFaults,
                   recoveryRuns>>

\* (iteration <= maxIterations: one iteration more than the cap.)
LoopConditionInclusive == hasIncompleteFeatures(features) /\ iteration <= maxIterations

\* The while condition: hasIncompleteFeatures && iteration < maxIterations.
LoopCondition == hasIncompleteFeatures(features) /\ iteration < maxIterations

\* The circuit breaker check at the top of the loop body.
BreakerOpen == consecutiveFailures >= maxConsecutiveFailures /\ ~force

\* The while condition is false: the loop ends, the summary is printed and
\* the process exits with code 0.
LoopExit ==
    /\ pc = "loop_head"
    /\ ~LoopCondition
    /\ pc' = "done"
    /\ LocalsGone
    /\ UNCHANGED <<features, notes, sessions, force, maxIterations, limit, clientVars, storeFaults,
                   recoveryRuns>>

\* The circuit breaker breaks out of the loop; summary, exit code 0.
BreakerTrip ==
    /\ pc = "loop_head"
    /\ LoopCondition
    /\ BreakerOpen
    /\ pc' = "breaker"
    /\ LocalsGone
    /\ UNCHANGED <<features, notes, sessions, force, maxIterations, limit, clientVars, storeFaults,
                   recoveryRuns>>

\* (The loop body with the first member of the batch pre-marked in_progress.)
OpenSessionMarksFirst ==
    /\ pc = "loop_head"
    /\ LoopCondition
    /\ ~BreakerOpen
    /\ iteration < SessionsAllowed
    /\ iteration' = iteration + 1
    /\ batchFeatures' = getNextFeatures(features, BATCH_SIZE)
    /\ preSessionCompleted' = getKanbanStats(features)["completed"]
    /\ sessions' = startSession(sessions)
    /\ sessionId' = Len(sessions')
    /\ completedCount' = 0
    /\ statusCalls' = {}
    /\ sessionStats' = NullStats
    /\ resultEvent' = FALSE
    /\ toolCalled' = FALSE
    /\ toolResult' = "none"
    /\ pc' = "agent"
    /\ features' = LET batch == getNextFeatures(features, BATCH_SIZE)
                   IN  IF batch = <<>> THEN features
                       ELSE setFeatureStatus(features, batch[1].id, "in_progress")
    /\ UNCHANGED <<notes, consecutiveFailures, force, maxIterations, limit, clientVars,
                   failedIterations, storeFaults, recoveryRuns>>

\* The loop body up to the call of runAgentSession: iteration++, the batch,
\* the kanban stats, the pre-session completed count, startSession.
OpenSession ==
    /\ pc = "loop_head"
    /\ LoopCondition
    /\ ~BreakerOpen
    /\ iteration < SessionsAllowed
    /\ iteration' = iteration + 1
    /\ batchFeatures' = getNextFeatures(features, BATCH_SIZE)
    /\ preSessionCompleted' = getKanbanStats(features)["completed"]
    /\ sessions' = startSession(sessions)
    /\ sessionId' = Len(sessions')
    /\ completedCount' = 0
    /\ statusCalls' = {}
    /\ sessionStats' = NullStats
    /\ resultEvent' = FALSE
    /\ toolCalled' = FALSE
    /\ toolResult' = "none"
    /\ pc' = "agent"
    /\ UNCHANGED <<features, notes, consecutiveFailures, force, maxIterations, limit, clientVars,
                   failedIterations, storeFaults, recoveryRuns>>

\* The ids of featureLookup, built from the batch.
featureLookup == {batchFeatures[k].id : k \in 1..Len(batchFeatures)}

\* runAgentSession's count of the tool_use blocks feature_status(id, completed)
\* whose id is in featureLookup.
ClaimedAfter(feature_id, status) ==
    IF feature_id \in featureLookup /\ status = "completed"
    THEN completedCount + 1
    ELSE completedCount

\* setFeatureStatus returns void whether or not the UPDATE matched a row.
setFeatureStatusOutcome(feats, featureId) == "returned"

\* markFeatureForRetry throws (row.retry_count of no row) for an unknown id.
markFeatureForRetryOutcome(feats, featureId) ==
    IF featureId \in Ids(feats) THEN "returned" ELSE "threw"

\* What the feature_status handler hands back: a text result, or, when the
\* Store call throws, the server's error result.
feature_status_result(feature_id, status) ==
    LET outcome == IF status = "pending"
                   THEN markFeatureForRetryOutcome(features, feature_id)
                   ELSE setFeatureStatusOutcome(features, feature_id)
    IN  IF outcome = "threw" THEN "error" ELSE "ok"

\* The feature_status tool of the features-db server, called by the agent of
\* the running session; runAgentSession sees the tool_use block in the stream.
feature_status(feature_id, status) ==
    /\ pc = "agent"
    /\ (status = "pending" /\ feature_id \in Ids(features))
          => features[feature_id].retry_count < MaxRetryCount
    /\ ClaimedAfter(feature_id, status) <= MaxClaimed
    /\ features' = IF status = "pending"
                   THEN markFeatureForRetry(features, feature_id, MAX_RETRIES)
                   ELSE setFeatureStatus(features, feature_id, status)
    /\ completedCount' = ClaimedAfter(feature_id, status)
    /\ statusCalls' = IF status \in {"completed", "pending"}
                       THEN statusCalls \cup {feature_id}
                       ELSE statusCalls
    /\ toolCalled' = TRUE
    /\ toolResult' = feature_status_result(feature_id, status)
    /\ LoopLocalsUnchanged
    /\ rows' = <<>>
    /\ UNCHANGED <<notes, sessions, pc, force, maxIterations, limit, storeFaults,
                   recoveryRuns, sessionStats, resultEvent, now, retryArgs, sessionContext, orphaned,
                   retryCountRead, observed, retryCalls>>

\* The event stream of the agent ends, with or without a result event, and
\* runAgentSession returns its stats.
AgentReturns ==
    /\ pc = "agent"
    /\ resultEvent' \in BOOLEAN
    /\ sessionStats' = [isNull |-> FALSE, featuresCompleted |-> completedCount]
    /\ completedCount' = 0
    /\ statusCalls' = {}
    /\ toolResult' = "none"
    /\ pc' = "reconcile"
    /\ LoopLocalsUnchanged
    /\ UNCHANGED toolCalled
    /\ UNCHANGED <<features, notes, sessions, force, maxIterations, limit, clientVars, storeFaults,
                   recoveryRuns>>

\* runAgentSession throws: sessionStats stays null.
AgentThrows ==
    /\ pc = "agent"
    /\ completedCount' = 0
    /\ statusCalls' = {}
    /\ toolResult' = "none"
    /\ pc' = "catch"
    /\ LoopLocalsUnchanged
    /\ UNCHANGED <<sessionStats, resultEvent, toolCalled>>
    /\ UNCHANGED <<features, notes, sessions, force, maxIterations, limit, clientVars, storeFaults,
                   recoveryRuns>>

\* n Store writes of the orchestrator fail (the database is locked, ...).
StoreWritesFail(n) ==
    /\ storeFaults + n <= MaxStoreFaults
    /\ storeFaults' = storeFaults + n

\* (The claimed count, sessionStats?.featuresCompleted ?? 0, in place of the
\* verified one.)
observedCompleted == IF sessionStats.isNull THEN 0 ELSE sessionStats.featuresCompleted

\* postSessionStats.completed - preSessionCompleted
verifiedCompleted == getKanbanStats(features)["completed"] - preSessionCompleted

\* The rest of the try block: the verified count, consecutiveFailures = 0,
\* endSession(completed). A throw of endSession is caught by the catch block
\* of the same iteration.
Reconcile ==
    /\ pc = "reconcile"
    /\ consecutiveFailures' = 0
    /\ \/ /\ sessions' = endSession(sessions, sessionId,
                              [status |-> "completed",
                               features_attempted |-> Len(batchFeatures),
                               features_completed |-> verifiedCompleted,
                               error_message |-> "NULL"])
          /\ failedIterations' = 0
          /\ resultEvent' = FALSE
          /\ pc' = "loop_head"
          /\ UNCHANGED storeFaults
       \/ /\ StoreWritesFail(1)
          /\ pc' = "catch"
          /\ UNCHANGED <<sessions, failedIterations, resultEvent>>
    /\ UNCHANGED <<features, notes, iteration, force, maxIterations, batchFeatures,
                   preSessionCompleted, sessionId, limit, completedCount, statusCalls,
                   sessionStats, toolCalled, recoveryRuns, toolResult, clientVars>>

\* (The failure note scoped to the category of the batch.)
FailureNoteScoped ==
    [feature_id |-> NullId,
     category |-> IF batchFeatures = <<>> THEN "NULL" ELSE batchFeatures[1].category,
     content |-> [session |-> sessionId,
                  featureIds |-> [k \in 1..Len(batchFeatures) |-> batchFeatures[k].id]],
     created_by_session |-> sessionId]

\* The automatic failure note: global scope, the session and its batch's ids.
FailureNote ==
    [feature_id |-> NullId, category |-> "NULL",
     content |-> [session |-> sessionId,
                  featureIds |-> [k \in 1..Len(batchFeatures) |-> batchFeatures[k].id]],
     created_by_session |-> sessionId]

\* The catch block: consecutiveFailures++, the failure note (a throw of addNote
\* is swallowed), the 5 s sleep, endSession(failed). A throw of this endSession
\* leaves runAutonomousAgent ("Fatal error") and the process exits with code 1.
CatchBlock ==
    /\ pc = "catch"
    /\ \E noteFails \in BOOLEAN, endFails \in BOOLEAN :
          /\ StoreWritesFail((IF noteFails THEN 1 ELSE 0) + (IF endFails THEN 1 ELSE 0))
          /\ notes' = IF noteFails THEN notes ELSE addNote(notes, FailureNote, now)
          /\ IF endFails
             THEN /\ pc' = "exit1"
                  /\ LocalsGone
                  /\ UNCHANGED sessions
             ELSE /\ pc' = "loop_head"
                  /\ consecutiveFailures' = consecutiveFailures + 1
                  /\ failedIterations' = failedIterations + 1
                  /\ sessions' = endSession(sessions, sessionId,
                                     [status |-> "failed", features_attempted |-> 0,
                                      features_completed |-> 0,
                                      error_message |-> "error"])
                  /\ resultEvent' = FALSE
                  /\ UNCHANGED <<iteration, batchFeatures, preSessionCompleted,
                                 sessionId, completedCount, statusCalls, sessionStats, toolCalled,
                                 toolResult>>
    /\ UNCHANGED <<features, force, maxIterations, limit, clientVars, recoveryRuns>>

\* SIGINT / SIGTERM: cleanup() and process.exit(0), wherever the process is.
Signal ==
    /\ pc \notin Ended
    /\ pc' = "interrupted"
    /\ LocalsGone
    /\ UNCHANGED <<features, notes, sessions, force, maxIterations, limit, clientVars, storeFaults,
                   recoveryRuns>>

Next ==
    \/ Validate
    \/ Recovery
    \/ CheckFeatures
    \/ LoopExit
    \/ BreakerTrip
    \/ OpenSession
    \/ \E id \in 1..MaxFeatures, s \in {"in_progress", "completed", "pending"} :
          feature_status(id, s)
    \/ AgentReturns
    \/ AgentThrows
    \/ Reconcile
    \/ CatchBlock
    \/ Signal

Spec == Init /\ [][Next]_vars

\* ------------------------------------------------ startup (agent.ts)
\* The startup of runAutonomousAgent - Validator, Recovery, the feature
\* check - on every feature set over ids 1..MaxId (any subset of ids, any
\* category, pending or in_progress).
InitStartup ==
    /\ features \in FeatureTables(SUBSET (1..MaxId), {"pending", "in_progress"})
    /\ pc = "start"
    /\ NoProcess
    /\ ClientsIdle

NextStartup ==
    \/ Validate
    \/ Recovery
    \/ CheckFeatures

SpecStartup == InitStartup /\ [][NextStartup]_vars

\* --------------------------------- features-db tool surface (mcp-server.ts)
RECURSIVE ToDecimal(_)
\* String(n): the decimal digits of a natural number.
ToDecimal(n) == IF n < 10 THEN <<n>> ELSE ToDecimal(n \div 10) \o <<n % 10>>

RECURSIVE parseInt(_)
\* parseInt(s, 10) of a string of decimal digits.
parseInt(digits) ==
    IF Len(digits) = 1
    THEN digits[1]
    ELSE 10 * parseInt(SubSeq(digits, 1, Len(digits) - 1)) + digits[Len(digits)]

\* x || "0": the empty string is falsy.
OrZero(digits) == IF digits = <<>> THEN <<0>> ELSE digits

\* (AUTONOMOUS_SESSION_ID does not reach the server: the "0" default.)
EnvSessionIdUnset(id) == parseInt(OrZero(<<>>))

\* The server's sessionId: agentEnv.AUTONOMOUS_SESSION_ID = String(sessionId),
\* handed on as String(env.AUTONOMOUS_SESSION_ID || "0"), read back with
\* parseInt(process.env.AUTONOMOUS_SESSION_ID || "0", 10).
EnvSessionId(id) == parseInt(OrZero(OrZero(ToDecimal(id))))

\* The content of a note: empty, or some text.
Contents == {"", "text"}

\* Everything a tool call leaves alone, the notes relation and the call's
\* result aside.
ToolFrame ==
    /\ UNCHANGED <<features, sessions, pc, iteration, consecutiveFailures, force,
                   maxIterations, batchFeatures, preSessionCompleted, sessionId, limit,
                   storeFaults, completedCount, statusCalls, sessionStats, resultEvent,
                   recoveryRuns, failedIterations, now, retryArgs, sessionContext, orphaned, retryCountRead,
                   observed, retryCalls>>

\* The handler of a note tool: addNote with the tool's scope and the server's
\* session id, then the text result. (The schema's foreign key on feature_id
\* is not enforced: no PRAGMA foreign_keys is issued.)
NoteTool(feature_id, category, content) ==
    /\ pc = "agent"
    /\ Len(notes) < MaxNotes
    /\ notes' = addNote(notes, [feature_id |-> feature_id, category |-> category,
                                content |-> content,
                                created_by_session |-> EnvSessionId(sessionId)], now)
    /\ toolResult' = "ok"
    /\ toolCalled' = TRUE
    /\ rows' = <<>>
    /\ ToolFrame

feature_note(feature_id, content) == NoteTool(feature_id, "NULL", content)

category_note(category, content) == NoteTool(NullId, category, content)

global_note(content) == NoteTool(NullId, "NULL", content)

\* The indexes of the notes selected by WHERE feature_id = ? OR category = ?
\* OR (feature_id IS NULL AND category IS NULL).
NotesSelected(ns, featureId, category) ==
    {k \in 1..Len(ns) :
        \/ (featureId # NullId /\ ns[k].feature_id = featureId)
        \/ (category # "NULL" /\ ns[k].category = category)
        \/ (ns[k].feature_id = NullId /\ ns[k].category = "NULL")}

\* The orders ORDER BY created_at DESC may return the selected rows in: rows
\* with the same created_at come in whatever order SQLite produces them.
RECURSIVE NotesOrders(_, _)
NotesOrders(ns, selected) ==
    IF selected = {}
    THEN {<<>>}
    ELSE LET newest == {k \in selected :
                           \A j \in selected : ns[k].created_at >= ns[j].created_at}
         IN  UNION {{<<k>> \o rest : rest \in NotesOrders(ns, selected \ {k})} :
                    k \in newest}

\* The results getNotesForFeature may return, each row with its id.
getNotesForFeature(ns, featureId, category) ==
    {[k \in 1..Len(order) |->
         [id |-> order[k], feature_id |-> ns[order[k]].feature_id,
          category |-> ns[order[k]].category, content |-> ns[order[k]].content,
          created_at |-> ns[order[k]].created_at]] :
     order \in NotesOrders(ns, NotesSelected(ns, featureId, category))}

\* The get_notes tool: feature_id ?? null, category ?? null.
get_notes(feature_id, category) ==
    /\ pc = "agent"
    /\ rows' \in getNotesForFeature(notes, feature_id, category)
    /\ toolResult' = "ok"
    /\ toolCalled' = TRUE
    /\ UNCHANGED notes
    /\ ToolFrame

\* A second passes on the Store's clock.
Tick ==
    /\ pc = "agent"
    /\ now < MaxNow
    /\ now' = now + 1
    /\ UNCHANGED <<features, notes, sessions, pc, rows, retryArgs, sessionContext, orphaned, retryCountRead,
                   observed, retryCalls, iteration, consecutiveFailures, force,
                   maxIterations, batchFeatures, preSessionCompleted, sessionId, limit,
                   storeFaults, completedCount, statusCalls, sessionStats, resultEvent, toolCalled,
                   recoveryRuns, toolResult, failedIterations>>

\* A session in flight: the orchestrator awaits the agent's stream while the
\* agent calls the tools of the features-db server.
InitTools ==
    /\ features \in FeatureTables({1..n : n \in 1..MaxToolFeatures}, FeatureStatus)
    /\ notes = <<>>
    /\ sessions \in {startSession(prior) : prior \in PriorSessions}
    /\ sessionId = Len(sessions)
    /\ iteration = 1
    /\ pc = "agent"
    /\ batchFeatures = getNextFeatures(features, BATCH_SIZE)
    /\ preSessionCompleted = getKanbanStats(features)["completed"]
    /\ recoveryRuns = 1
    /\ consecutiveFailures = 0
    /\ force = FALSE
    /\ maxIterations = Infinity
    /\ limit = BATCH_SIZE
    /\ storeFaults = 0
    /\ completedCount = 0
    /\ statusCalls = {}
    /\ sessionStats = NullStats
    /\ resultEvent = FALSE
    /\ toolCalled = FALSE
    /\ toolResult = "none"
    /\ failedIterations = 0
    /\ ClientsIdle

ToolFeatureIds == 1..(MaxToolFeatures + 1)

NextTools ==
    \/ \E id \in ToolFeatureIds, s \in {"in_progress", "completed", "pending"} :
          feature_status(id, s)
    \/ \E id \in ToolFeatureIds, content \in Contents : feature_note(id, content)
    \/ \E category \in Categories, content \in Contents : category_note(category, content)
    \/ \E content \in Contents : global_note(content)
    \/ \E id \in ToolFeatureIds \cup {NullId}, category \in Categories \cup {"NULL"} :
          get_notes(id, category)
    \/ Tick
    \/ AgentThrows
    \/ CatchBlock

SpecTools == InitTools /\ [][NextTools]_vars

\* ------------------------------------------------------- claims: batcher
BatchIds == {batchFeatures[k].id : k \in 1..Len(batchFeatures)}

\* C6: next_batch draws its batch from the category of the pending feature
\* with the lowest id among all pending features (stated over the feature
\* sets the Validator accepts, the only ones the Batcher is run on).
C6_LowestPendingIdCategory ==
    (pc = "batch_return" /\ Len(batchFeatures) > 0
        /\ validateCategoryContiguity(features)) =>
        LET pending == {i \in DOMAIN features : features[i].status = "pending"}
            lowest == CHOOSE i \in pending : \A j \in pending : i <= j
        IN  \A k \in 1..Len(batchFeatures) :
                batchFeatures[k].category = features[lowest].category

\* C7: for every limit N >= 1, next_batch(N) returns exactly min(N, p) features,
\* p the number of pending features of the selected category; all returned
\* features are pending, share that category, are its lowest-id pending
\* members, and appear in strictly ascending id order.
C7_BatchShape ==
    (pc = "batch_return" /\ \E i \in DOMAIN features : features[i].status = "pending") =>
        /\ Len(batchFeatures) >= 1
        /\ LET c == batchFeatures[1].category
               P == {i \in DOMAIN features :
                        features[i].status = "pending" /\ features[i].category = c}
           IN  /\ Len(batchFeatures) = Min(limit, Cardinality(P))
               /\ \A k \in 1..Len(batchFeatures) :
                     /\ batchFeatures[k].status = "pending"
                     /\ batchFeatures[k].category = c
                     /\ batchFeatures[k].id \in P
               /\ \A k, j \in 1..Len(batchFeatures) :
                     k < j => batchFeatures[k].id < batchFeatures[j].id
               /\ \A i \in P \ BatchIds : \A j \in BatchIds : j < i

\* A batch cut by the limit: the category holds more pending features than N.
C7_Witness ==
    /\ pc = "batch_return"
    /\ Len(batchFeatures) = limit
    /\ limit >= 2
    /\ \E i \in DOMAIN features \ BatchIds :
          features[i].status = "pending" /\ features[i].category = batchFeatures[1].category

\* C8: next_batch returns an empty result if and only if no feature has
\* status pending.
C8_EmptyIffNoPending ==
    pc = "batch_return" =>
        (Len(batchFeatures) = 0 <=>
            ~ \E i \in DOMAIN features : features[i].status = "pending")

\* An empty batch over a feature set that still holds unfinished work.
C8_Witness ==
    /\ pc = "batch_return"
    /\ Len(batchFeatures) = 0
    /\ \E i \in DOMAIN features : features[i].status = "in_progress"
    /\ \E i \in DOMAIN features : features[i].status = "failed"

\* ---------------------------------------------- claims: store and loop
\* C1: after every Store operation and every tool call, every feature whose
\* retry_count is >= MAX_RETRIES has status failed.
C1_RetryLimitImpliesFailed ==
    \A i \in DOMAIN features :
        features[i].retry_count >= MAX_RETRIES => features[i].status = "failed"

\* C2: once a feature's status is completed or failed, no step of the loop, no
\* Recovery step and no tool call of the agent changes its status again.
C2_TerminalNeverReopened ==
    [][\A i \in DOMAIN features :
          features[i].status \in {"completed", "failed"}
              => features'[i].status = features[i].status]_vars

\* C3: a feature's status becomes failed only by a retry whose incremented
\* retry_count is >= max_retries; nothing else writes the status failed.
C3_FailedOnlyByRetry ==
    [][\A i \in DOMAIN features :
          (features'[i].status = "failed" /\ features'[i] # features[i])
              => /\ features'[i].retry_count = features[i].retry_count + 1
                 /\ features'[i].retry_count >= MAX_RETRIES]_vars

\* A feature the third retry has just failed.
C3_Witness ==
    \E i \in DOMAIN features :
        features[i].status = "failed" /\ features[i].retry_count = MAX_RETRIES

\* C4: between two iterations of the outer loop (a session closed, the next
\* not yet opened) no feature has status in_progress.
C4_NoInProgressBetweenIterations ==
    (pc = "loop_head" /\ iteration >= 1) =>
        \A i \in DOMAIN features : features[i].status # "in_progress"

\* C5: whenever the Batcher returns an empty batch at the start of an
\* iteration, the outer loop terminates without invoking the agent.
C5_EmptyBatchEndsLoop ==
    [][(pc = "loop_head" /\ getNextFeatures(features, BATCH_SIZE) = <<>>
          /\ pc' # "interrupted")
          => pc' \in {"done", "breaker"}]_vars

\* C9: the breaker stops the loop at the top of an iteration iff
\* consecutive_failures >= 3 and force is not set; without force no session is
\* opened after three consecutive failed iterations; with force the breaker
\* never stops the loop.
C9_BreakerStopsAfterThreeFailures ==
    [][(pc = "loop_head" /\ LoopCondition /\ pc' # "interrupted")
          => /\ (pc' = "breaker") <=> (consecutiveFailures >= 3 /\ ~force)
             /\ (pc' = "agent" /\ ~force) => failedIterations < 3
             /\ force => pc' # "breaker"]_vars

\* C10: at the top of every iteration consecutive_failures equals the number
\* of failure-path iterations since the last iteration closed by the
\* reconcile path (or since process start).
C10_CounterCountsFailedIterations ==
    pc = "loop_head" => consecutiveFailures = failedIterations

\* --------------------------------------------- claims: session lifecycle
\* The sessions this process has opened (while the process runs).
RunSessions == {i \in DOMAIN sessions : i > Len(sessions) - iteration}

\* C11: every session row is created with status running before the agent is
\* invoked, and its terminal transition (completed or failed) is written
\* exactly once: never twice, and never zero times - no session of the run is
\* still running when the iteration is over or the process has ended.
C11_SessionClosedExactlyOnce ==
    [][/\ Len(sessions') > Len(sessions)
            => /\ sessions'[Len(sessions')].status = "running"
               /\ pc = "loop_head" /\ pc' = "agent"
       /\ \A i \in DOMAIN sessions :
             sessions'[i] # sessions[i]
                => /\ sessions[i].status = "running"
                   /\ sessions'[i].status \in {"completed", "failed"}
       /\ pc' \in Ended \cup {"loop_head"}
            => \A i \in RunSessions : sessions'[i].status # "running"]_vars

\* C12: a new session is opened only when no session is running, so at most
\* one session row has status running at any time.
C12_CloseBeforeNextOpen ==
    [][/\ Len(sessions') > Len(sessions)
            => \A i \in DOMAIN sessions : sessions[i].status # "running"
       /\ Cardinality({i \in DOMAIN sessions' : sessions'[i].status = "running"}) <= 1]_vars

\* C13: Recovery runs exactly once per orchestrator process, before the first
\* session is opened, and never again during the outer loop.
C13_RecoveryOnceBeforeFirstSession ==
    /\ recoveryRuns <= 1
    /\ pc \in {"loop_head", "agent", "reconcile", "catch"} => recoveryRuns = 1
    /\ (pc \in {"start", "recovery"}) => (iteration = 0 /\ recoveryRuns = 0)

\* The loop is between two iterations with an in_progress feature that the one
\* Recovery of the process did not see.
C13_Witness ==
    /\ pc = "loop_head"
    /\ iteration >= 1
    /\ recoveryRuns = 1
    /\ \E i \in DOMAIN features : features[i].status = "in_progress"

C15_NoResultEventFails ==
    [][(pc = "reconcile" /\ ~resultEvent /\ pc' # "interrupted")
          => /\ sessions'[sessionId].status # "completed"
             /\ pc' = "catch"]_vars

\* C16: any exception during agent invocation or reconciliation closes the
\* session as failed with the error message; a session is closed as completed
\* only when the agent run ended normally (with its result event) and
\* reconciliation finished.
C16_ExceptionClosesFailed ==
    [][/\ (pc = "catch" /\ pc' # "interrupted")
            => /\ sessions'[sessionId].status = "failed"
               /\ sessions'[sessionId].error_message = "error"
       /\ \A i \in DOMAIN sessions :
             (sessions[i].status = "running" /\ sessions'[i].status = "completed")
                => (pc = "reconcile" /\ resultEvent)]_vars

\* The note the failure path is to write for the session in flight.
ExpectedFailureNote ==
    [feature_id |-> NullId, category |-> "NULL",
     content |-> [session |-> sessionId,
                  featureIds |-> [k \in 1..Len(batchFeatures) |-> batchFeatures[k].id]],
     created_by_session |-> sessionId, created_at |-> now]

\* C17 (as stated): on every failed iteration the Runner adds exactly one note
\* at global scope that names the failed session and the ids of its batch.
C17_ExactlyOneFailureNote ==
    [][(pc = "catch" /\ pc' # "interrupted")
          => notes' = Append(notes, ExpectedFailureNote)]_vars

\* C17 (amended): on every iteration that takes the failure path the Runner
\* attempts one note add at global scope naming the failed session and the ids
\* of its batch: that one note is added, or, when the write throws, none is;
\* the Runner adds no other note.
C17_FailureNoteAttempted ==
    [][/\ (pc = "catch" /\ pc' # "interrupted")
            => \/ notes' = Append(notes, ExpectedFailureNote)
               \/ (notes' = notes /\ storeFaults' > storeFaults)
       /\ notes' # notes => pc = "catch"]_vars

\* Two sessions of the run closed as failed, and the note of only one of them.
C17_Witness ==
    /\ pc = "loop_head"
    /\ Len(notes) = 1
    /\ notes[1].feature_id = NullId /\ notes[1].category = "NULL"
    /\ notes[1].content.featureIds # <<>>
    /\ Cardinality({i \in RunSessions : sessions[i].status = "failed"}) = 2

\* C18: the Runner itself never writes a feature's status or retry_count (only
\* the agent's tool calls do, within a session); after a failed iteration in
\* which the agent made no tool call the next iteration's batch is the failed
\* one's.
C18_RunnerLeavesFeatures ==
    [][/\ (pc \in {"loop_head", "reconcile", "catch"} \/ (pc = "agent" /\ pc' # "agent"))
            => features' = features
       /\ (pc = "loop_head" /\ pc' = "agent" /\ iteration >= 1
              /\ sessions[sessionId].status = "failed" /\ ~toolCalled)
            => batchFeatures' = batchFeatures]_vars

\* The second session of a run, opened on the batch of the first, which failed
\* before any tool call.
C18_Witness ==
    /\ pc = "agent"
    /\ iteration = 2
    /\ sessions[sessionId - 1].status = "failed"
    /\ batchFeatures # <<>>
    /\ \A i \in DOMAIN features :
          features[i].status = "pending" /\ features[i].retry_count = 0

\* C19: on SIGINT or SIGTERM while a session is in flight, the session row is
\* marked failed with message "interrupted" before the process exits, and no
\* further iteration is started.
C19_SignalMarksSessionFailed ==
    [][/\ (pc \in {"agent", "reconcile", "catch"} /\ pc' = "interrupted")
            => /\ sessions'[sessionId].status = "failed"
               /\ sessions'[sessionId].error_message = "interrupted"
       /\ pc = "interrupted" => pc' = "interrupted"]_vars

\* C20: a failure of the orchestrator's own end_session write is handled as a
\* transient iteration error: the breaker counter is incremented by one over
\* its pre-iteration value (the failed close does not reset it), the session
\* is recorded as failed, the loop goes on and the process does not abort.
C20_EndSessionFailureIsTransient ==
    [][/\ (pc = "reconcile" /\ pc' = "catch")
            => consecutiveFailures' = consecutiveFailures
       /\ (pc = "catch" /\ ~sessionStats.isNull /\ pc' # "interrupted")
            => /\ pc' = "loop_head"
               /\ consecutiveFailures' = consecutiveFailures + 1
               /\ sessions'[sessionId].status = "failed"]_vars

\* ------------------------------------------------------- claims: retry
\* C21: retry is atomic: no other Store operation observes the Store between
\* the retry_count increment and the status write, so every row an observer
\* reads is the row as a whole number of retry calls leaves it - never the
\* incremented count together with the pre-retry status.
C21_RetryIsAtomic ==
    observed # NoRow =>
        \/ observed.retry_count = 0
        \/ observed.status = IF observed.retry_count >= retryArgs.maxRetries
                             THEN "failed" ELSE "pending"

\* C22: starting from retry_count = 0, the k-th consecutive retry(i, M) call
\* for k < M leaves the feature pending with retry_count = k, and the M-th
\* call leaves it failed with retry_count = M.
C22_RetrySequence ==
    (pc = "retry_idle" /\ retryCalls >= 1 /\ retryCalls <= retryArgs.maxRetries) =>
        LET f == features[retryArgs.featureId]
        IN  /\ f.retry_count = retryCalls
            /\ retryCalls < retryArgs.maxRetries => f.status = "pending"
            /\ retryCalls = retryArgs.maxRetries => f.status = "failed"

\* The third retry(i, 3) has returned.
C22_Witness ==
    /\ pc = "retry_idle"
    /\ retryArgs.maxRetries = MAX_RETRIES
    /\ retryCalls = MAX_RETRIES
    /\ features[retryArgs.featureId].status = "failed"

\* ------------------------------------------------ claims: tool surface
\* C23: feature_status and feature_note called with a feature id that does
\* not exist return a structured error and change nothing in the Store.
C23_UnknownIdChangesNothing ==
    [][\A id \in ToolFeatureIds \ Ids(features) :
          /\ \A s \in {"in_progress", "completed", "pending"} :
                feature_status(id, s)
                   => (toolResult' = "error" /\ features' = features /\ notes' = notes)
          /\ \A content \in Contents :
                feature_note(id, content)
                   => (toolResult' = "error" /\ features' = features /\ notes' = notes)]_vars

\* C24: feature_note, category_note and global_note called with empty content
\* return a structured error and insert no note.
C24_EmptyContentRejected ==
    [][/\ \A id \in ToolFeatureIds :
             feature_note(id, "") => (toolResult' = "error" /\ notes' = notes)
       /\ \A category \in Categories :
             category_note(category, "") => (toolResult' = "error" /\ notes' = notes)
       /\ global_note("") => (toolResult' = "error" /\ notes' = notes)]_vars

\* C25: set_status(feature_id, s) for a feature id that does not exist fails
\* with NotFound instead of returning success.
C25_SetStatusNotFound ==
    [][\A id \in ToolFeatureIds \ Ids(features), s \in {"in_progress", "completed"} :
          feature_status(id, s)
             => (setFeatureStatusOutcome(features, id) = "threw" /\ toolResult' # "ok")]_vars

\* C30: notes_for(f, c) returns exactly the notes whose scope is feature f,
\* category c, or global, ordered so that any note inserted later precedes
\* any note inserted earlier.
C30_NotesForScopeNewestFirst ==
    [][\A f \in ToolFeatureIds \cup {NullId}, c \in Categories \cup {"NULL"} :
          get_notes(f, c)
             => /\ {rows'[a].id : a \in 1..Len(rows')} =
                      {k \in 1..Len(notes) :
                          \/ (notes[k].feature_id = f /\ f # NullId)
                          \/ (notes[k].category = c /\ c # "NULL")
                          \/ (notes[k].feature_id = NullId /\ notes[k].category = "NULL")}
                /\ \A a, b \in 1..Len(rows') : a < b => rows'[a].id > rows'[b].id]_vars

\* ------------------------------------- a run of settled sessions (agent.ts)
\* The run in which every session ends normally - no throw, no Store fault,
\* no signal - and the agent of every session calls feature_status(completed)
\* or feature_status(pending) on every feature of its batch before its stream
\* ends; it may make any other feature_status call as well. The run has no
\* iteration cap, so it is followed without a bound on its sessions.
InitLive ==
    /\ features \in FeatureTables({{1}}, {"pending", "in_progress"})
    /\ pc = "start"
    /\ NoProcess
    /\ ClientsIdle

\* A feature_status(completed | pending) call on a feature of the batch that
\* has had none in this session.
SettlingCall ==
    \E id \in featureLookup \ statusCalls, s \in {"completed", "pending"} :
        feature_status(id, s)

\* The stream ends once every feature of the batch has had such a call.
LiveAgentReturns ==
    /\ featureLookup \subseteq statusCalls
    /\ AgentReturns

\* The loop body once MaxSessions sessions have been opened: the same steps
\* as OpenSession, but the iteration count and the new session's row are no
\* longer told apart from the last ones (the row takes the place of the last
\* row). With maxIterations unlimited the count decides nothing, and no step
\* of the loop reads the rows of closed sessions.
OpenSessionBeyond ==
    /\ pc = "loop_head"
    /\ LoopCondition
    /\ ~BreakerOpen
    /\ iteration >= SessionsAllowed
    /\ batchFeatures' = getNextFeatures(features, BATCH_SIZE)
    /\ preSessionCompleted' = getKanbanStats(features)["completed"]
    /\ sessions' = startSession(SubSeq(sessions, 1, Len(sessions) - 1))
    /\ sessionId' = Len(sessions')
    /\ completedCount' = 0
    /\ statusCalls' = {}
    /\ sessionStats' = NullStats
    /\ resultEvent' = FALSE
    /\ toolCalled' = FALSE
    /\ toolResult' = "none"
    /\ pc' = "agent"
    /\ UNCHANGED <<features, notes, iteration, consecutiveFailures, force, maxIterations,
                   limit, clientVars, failedIterations, storeFaults, recoveryRuns>>

\* The reconcile path with endSession succeeding.
LiveReconcile ==
    /\ Reconcile
    /\ pc' = "loop_head"

Orchestrator ==
    \/ Validate
    \/ Recovery
    \/ CheckFeatures
    \/ LoopExit
    \/ OpenSession
    \/ OpenSessionBeyond
    \/ LiveReconcile

NextLive ==
    \/ Orchestrator
    \/ \E id \in 1..MaxFeatures, s \in {"in_progress", "completed", "pending"} :
          feature_status(id, s)
    \/ LiveAgentReturns

\* The orchestrator runs on, the agent makes its settling calls and its stream
\* ends.
SpecLive ==
    /\ InitLive
    /\ [][NextLive]_vars
    /\ WF_vars(Orchestrator)
    /\ WF_vars(SettlingCall)
    /\ WF_vars(LiveAgentReturns)

\* ------------------------------------------------- Store API (db.ts)
\* The operations of the Store called in any order on any feature set, by
\* the orchestrator, the tool server and the CLI (the features of one category:
\* none of these operations reads the category).
InitStore ==
    /\ features \in {feats \in FeatureTables({1..n : n \in 0..MaxFeatures}, FeatureStatus) :
                        \A i \in Ids(feats) : feats[i].category = "a"}
    /\ pc = "store"
    /\ NoProcess
    /\ ClientsIdle

StoreFrame ==
    UNCHANGED <<pc, iteration, consecutiveFailures, force, maxIterations,
                batchFeatures, preSessionCompleted, sessionId, limit, storeFaults,
                completedCount, statusCalls, sessionStats, resultEvent, toolCalled, recoveryRuns,
                toolResult, failedIterations, now, rows, retryArgs, sessionContext,
                retryCountRead, retryCalls>>

StoreSetFeatureStatus(featureId, status) ==
    /\ features' = setFeatureStatus(features, featureId, status)
    /\ UNCHANGED <<notes, sessions, orphaned, observed>>
    /\ StoreFrame

StoreMarkFeatureForRetry(featureId) ==
    /\ featureId \in Ids(features) => features[featureId].retry_count < MaxRetryCount
    /\ features' = markFeatureForRetry(features, featureId, MAX_RETRIES)
    /\ UNCHANGED <<notes, sessions, orphaned, observed>>
    /\ StoreFrame

StoreResetOrphanedFeatures ==
    /\ features' = resetOrphanedFeatures(features)
    /\ orphaned' = resetOrphanedFeaturesChanges(features)
    /\ UNCHANGED <<notes, sessions, observed>>
    /\ StoreFrame

StoreStartSession ==
    /\ Len(sessions) < MaxSessionsWide
    /\ sessions' = startSession(sessions)
    /\ UNCHANGED <<features, notes, orphaned, observed>>
    /\ StoreFrame

StoreEndSession(id, status) ==
    /\ id \in DOMAIN sessions
    /\ sessions' = endSession(sessions, id,
                       [status |-> status, features_attempted |-> 0,
                        features_completed |-> 0, error_message |-> "NULL"])
    /\ UNCHANGED <<features, notes, orphaned, observed>>
    /\ StoreFrame

StoreAddNote(feature_id, category) ==
    /\ Len(notes) < MaxStoreNotes
    /\ notes' = addNote(notes, [feature_id |-> feature_id, category |-> category,
                                content |-> "text", created_by_session |-> 0], now)
    /\ UNCHANGED <<features, sessions, orphaned, observed>>
    /\ StoreFrame

\* A read of one feature's row.
StoreReadFeature(featureId) ==
    /\ featureId \in Ids(features)
    /\ observed' = [id |-> featureId, status |-> features[featureId].status,
                    retry_count |-> features[featureId].retry_count]
    /\ UNCHANGED <<features, notes, sessions, orphaned>>
    /\ StoreFrame

NextStore ==
    \/ \E id \in 1..(MaxFeatures + 1), s \in FeatureStatus : StoreSetFeatureStatus(id, s)
    \/ \E id \in 1..(MaxFeatures + 1) : StoreMarkFeatureForRetry(id)
    \/ StoreResetOrphanedFeatures
    \/ StoreStartSession
    \/ \E id \in 1..MaxSessionsWide, s \in {"completed", "failed"} : StoreEndSession(id, s)
    \/ StoreAddNote(NullId, "NULL")
    \/ StoreReadFeature(1)

SpecStore == InitStore /\ [][NextStore]_vars

\* ------------------------------------------- session context (agent.ts)
\* getRelevantNotes: getNotesForFeature(projectDir, null, category), then
\* slice(0, 10). Each result getNotesForFeature may return gives one context.
getRelevantNotes(ns, category) ==
    {Take(result, NOTES_IN_CONTEXT) : result \in getNotesForFeature(ns, NullId, category)}

\* The notes of earlier sessions: notes of category "a" and global notes in
\* turn, the two oldest written in the same second, each later one a second
\* after the one before.
BaseNotes ==
    [k \in 1..ContextBaseNotes |->
        [feature_id |-> NullId,
         category |-> IF k % 2 = 1 THEN "a" ELSE "NULL",
         content |-> "text",
         created_by_session |-> 1,
         created_at |-> IF k <= 2 THEN 0 ELSE k - 2]]

InitContext ==
    /\ features \in FeatureTables({1..n : n \in 1..MaxToolFeatures}, {"pending"})
    /\ notes = BaseNotes
    /\ now = ContextBaseNotes - 2
    /\ sessions = endSession(startSession(<<>>), 1,
                              [status |-> "completed", features_attempted |-> 1,
                               features_completed |-> 0, error_message |-> "NULL"])
    /\ pc = "loop_head"
    /\ rows = <<>>
    /\ retryArgs = NoArgs
    /\ sessionContext = <<>>
    /\ orphaned = 0
    /\ retryCountRead = 0
    /\ observed = NoRow
    /\ retryCalls = 0
    /\ iteration = 1
    /\ consecutiveFailures = 0
    /\ force = FALSE
    /\ maxIterations = Infinity
    /\ batchFeatures = <<>>
    /\ preSessionCompleted = 0
    /\ sessionId = 1
    /\ limit = BATCH_SIZE
    /\ storeFaults = 0
    /\ completedCount = 0
    /\ statusCalls = {}
    /\ sessionStats = NullStats
    /\ resultEvent = FALSE
    /\ toolCalled = FALSE
    /\ recoveryRuns = 1
    /\ toolResult = "none"
    /\ failedIterations = 0

ContextFrame ==
    UNCHANGED <<features, sessions, pc, iteration, consecutiveFailures, force,
                maxIterations, batchFeatures, preSessionCompleted, sessionId, limit,
                storeFaults, completedCount, statusCalls, sessionStats, resultEvent, toolCalled,
                recoveryRuns, toolResult, failedIterations, rows, retryArgs,
                orphaned, retryCountRead, observed, retryCalls>>

\* addNote: one more note, of any scope of the tool surface.
NoteAdded(feature_id, category) ==
    /\ Len(notes) < ContextBaseNotes + MaxExtraNotes
    /\ notes' = addNote(notes, [feature_id |-> feature_id, category |-> category,
                                content |-> "text",
                                created_by_session |-> EnvSessionId(sessionId)], now)
    /\ UNCHANGED <<now, sessionContext>>
    /\ ContextFrame

\* A second passes on the Store's clock.
ContextTick ==
    /\ now < ContextBaseNotes - 2 + MaxExtraNow
    /\ now' = now + 1
    /\ UNCHANGED <<notes, sessionContext>>
    /\ ContextFrame

\* buildSessionContext for a batch of the given category.
BuildContext(category) ==
    /\ sessionContext' \in getRelevantNotes(notes, category)
    /\ UNCHANGED <<notes, now>>
    /\ ContextFrame

NextContext ==
    \/ \E i \in 1..MaxToolFeatures : NoteAdded(i, "NULL")
    \/ \E c \in Categories : NoteAdded(NullId, c)
    \/ NoteAdded(NullId, "NULL")
    \/ ContextTick
    \/ \E c \in Categories : BuildContext(c)

SpecContext == InitContext /\ [][NextContext]_vars

\* ----------------------------------------------------- claims: startup
\* The Category Contiguity Invariant: no id of another category falls between
\* two ids of the same category.
CategoryContiguityInvariant(feats) ==
    \A i, j, k \in DOMAIN feats :
        (i < k /\ k < j /\ feats[i].category = feats[j].category)
            => feats[k].category = feats[i].category

C27_ValidatorFailureExits ==
    [][(pc = "start" /\ ~validateCategoryContiguity(features) /\ pc' # "interrupted")
          => /\ pc' = "exit1"
             /\ features' = features
             /\ sessions' = sessions
             /\ recoveryRuns' = 0]_vars

\* The process has exited with code 1 on a rejected feature set whose
\* in_progress feature no Recovery has reset.
C27_Witness ==
    /\ pc = "exit1"
    /\ ~validateCategoryContiguity(features)
    /\ recoveryRuns = 0
    /\ \E i \in DOMAIN features : features[i].status = "in_progress"

\* C28: for an empty feature set has_incomplete is false, next_batch is
\* empty, and the outer loop exits immediately without opening any session:
\* the run ends cleanly, the empty set being valid input.
C28_EmptyFeatureSetIsValid ==
    DOMAIN features = {} =>
        /\ ~hasIncompleteFeatures(features)
        /\ getNextFeatures(features, BATCH_SIZE) = <<>>
        /\ pc \notin {"agent", "reconcile", "catch"}
        /\ pc # "exit1"

\* C29: with an iteration cap M the run opens at most M sessions, and the
\* outer loop terminates once M iterations have run even if incomplete
\* features remain.
C29_IterationCap ==
    [][/\ Len(sessions') > Len(sessions)
            => (iteration' = iteration + 1 /\ iteration' <= maxIterations)
       /\ (pc = "loop_head" /\ iteration >= maxIterations /\ pc' # "interrupted")
            => pc' = "done"]_vars

\* The loop has ended at the cap of two iterations with incomplete features
\* left.
C29_Witness ==
    /\ pc = "done"
    /\ maxIterations = 2
    /\ hasIncompleteFeatures(features)
    /\ Cardinality({i \in DOMAIN sessions : sessions[i].status # "running"}) >= 2

\* --------------------------------------------- claims: context and notes
\* The notes a context for the given category may hold: those of that
\* category and the global ones.
InScope(ns, category) ==
    {k \in 1..Len(ns) :
        /\ ns[k].feature_id = NullId
        /\ ns[k].category \in {category, "NULL"}}

\* C31: the assembled session context contains at most 10 notes, they are
\* the 10 most recently created notes among those scoped to the batch's
\* category or global, and no feature-scoped note is injected.
C31_ContextHoldsTenNewestNotes ==
    [][\A c \in Categories :
          BuildContext(c) =>
              LET ctx == {sessionContext'[k].id : k \in 1..Len(sessionContext')}
              IN  /\ Len(sessionContext') <= NOTES_IN_CONTEXT
                  /\ ctx \subseteq InScope(notes, c)
                  /\ Cardinality(ctx) = Min(NOTES_IN_CONTEXT,
                                            Cardinality(InScope(notes, c)))
                  /\ \A i \in ctx : \A j \in InScope(notes, c) \ ctx : j < i]_vars

\* C32: every note inserted through the tool surface while session S is
\* running, and the Runner's automatic failure note for S, records
\* created_by_session = S.
C32_NotesRecordTheSession ==
    [][Len(notes') > Len(notes)
          => /\ sessions[sessionId].status = "running"
             /\ notes'[Len(notes')].created_by_session = sessionId]_vars

\* Session 2 has failed: a feature note of the agent and the automatic
\* failure note after it both carry session 2.
C32_Witness ==
    /\ pc = "loop_head"
    /\ Len(sessions) = 2
    /\ sessions[2].status = "failed"
    /\ Len(notes) >= 2
    /\ notes[1].feature_id = 1 /\ notes[1].created_by_session = 2
    /\ notes[Len(notes)].feature_id = NullId
    /\ notes[Len(notes)].category = "NULL"
    /\ notes[Len(notes)].created_by_session = 2

\* ------------------------------------------------- claims: Store API
\* C33: reset_orphans sets every in_progress feature to pending, changes the
\* status of no other feature and returns the number of features it changed;
\* repeating it immediately changes 0 rows.
C33_ResetOrphans ==
    [][StoreResetOrphanedFeatures
          => /\ \A i \in Ids(features) :
                   features'[i] = IF features[i].status = "in_progress"
                                  THEN [features[i] EXCEPT !.status = "pending"]
                                  ELSE features[i]
             /\ Ids(features') = Ids(features)
             /\ orphaned' = Cardinality({i \in Ids(features) : features'[i] # features[i]})
             /\ resetOrphanedFeatures(features') = features'
             /\ resetOrphanedFeaturesChanges(features') = 0]_vars

\* reset_orphans has reset one of two features and left the other, a failed
\* feature with its retries, alone.
C33_Witness ==
    /\ pc = "store"
    /\ orphaned = 1
    /\ Ids(features) = {1, 2}
    /\ features[1].status = "pending" /\ features[1].retry_count = 0
    /\ features[2].status = "failed" /\ features[2].retry_count = MAX_RETRIES

\* C37: only retry changes a feature's retry_count, raising it by exactly 1
\* per call; set_status, reset_orphans, session open and close, note
\* insertion and reads leave every retry_count unchanged, so retry_count
\* never decreases.
C37_OnlyRetryChangesRetryCount ==
    [][/\ Ids(features') = Ids(features)
       /\ \A i \in Ids(features) :
             /\ StoreMarkFeatureForRetry(i)
                    => features'[i].retry_count = features[i].retry_count + 1
             /\ ~StoreMarkFeatureForRetry(i)
                    => features'[i].retry_count = features[i].retry_count]_vars

\* A feature retried twice has then been set in_progress and completed, with
\* a session closed and a note written, and still has its two retries.
C37_Witness ==
    /\ pc = "store"
    /\ 1 \in Ids(features)
    /\ features[1].status = "completed"
    /\ features[1].retry_count = 2
    /\ Len(sessions) = 1 /\ sessions[1].status = "completed"
    /\ Len(notes) = 1
    /\ observed.id = 1

\* C36: no feature's retry_count ever exceeds MAX_RETRIES (3), for any
\* sequence of feature_status calls on features in any status.
C36_RetryCountBounded ==
    \A i \in Ids(features) : features[i].retry_count <= MAX_RETRIES

\* ------------------------------------------------- claims: sessions
\* C35: whenever a feature has status in_progress (startup Recovery done),
\* exactly one session is in status running and the feature is a member of
\* that session's batch.
C35_InProgressHeldByRunningSession ==
    recoveryRuns >= 1 =>
        \A i \in Ids(features) :
            features[i].status = "in_progress" =>
                /\ {k \in DOMAIN sessions : sessions[k].status = "running"} = {sessionId}
                /\ i \in featureLookup

\* C38: if every session ends normally and in every session the agent calls
\* feature_status(completed) or feature_status(pending) on every feature of
\* its batch, the outer loop terminates with every feature completed or
\* failed, even with an unlimited iteration cap.
C38_SettledRunTerminates ==
    <>(/\ pc = "done"
       /\ \A i \in Ids(features) : features[i].status \in {"completed", "failed"})

\* C39: for every closed session,
\* 0 <= features_completed <= features_attempted <= BATCH_SIZE.
C39_ClosedSessionCounts ==
    \A k \in DOMAIN sessions :
        sessions[k].status # "running" =>
            /\ 0 <= sessions[k].features_completed
            /\ sessions[k].features_completed <= sessions[k].features_attempted
            /\ sessions[k].features_attempted <= BATCH_SIZE

\* C40: the claimed-completion counter of a session equals the number of
\* tool-use events feature_status(status = completed) in the session's
\* stream: each such event raises it by one, nothing else changes it while
\* the agent runs.
C40_ClaimedCountsCompletedEvents ==
    [][pc = "agent" /\ pc' = "agent"
          => completedCount' = completedCount +
                (IF \E id \in 1..MaxFeatures : feature_status(id, "completed")
                 THEN 1 ELSE 0)]_vars

====
